---- MODULE Spec2Model ----
(***************************************************************************)
(* GoTogether: the seat-allocation and request-approval workflow.          *)
(*                                                                         *)
(* The database (tables rides and requests with their CHECK constraints    *)
(* and row-level-security policies) is shared by every client.  Each       *)
(* DriverDashboard session keeps a cached copy of the driver's rides and   *)
(* of their requests (fetchData) and decides on requests from that cache   *)
(* (handleRequestDecision): one or two separate writes, each a round trip  *)
(* to the database, with no transaction around them.                       *)
(*                                                                         *)
(* Around it: OfferRide and FindRide insert rides and requests (as a guest *)
(* or signed in), Dashboard replays a posting or booking kept in           *)
(* localStorage, FindRide lists and filters the open rides, and the three  *)
(* views fetch again on the change events of the realtime publication.     *)
(*                                                                         *)
(* Further parts: the trigger that keeps the seat alias columns of rides,  *)
(* the loaders of the four panels of Dashboard, fetchData and              *)
(* processPending taken answer by answer, and handleSignUp of Auth with    *)
(* the trigger and the function that create the profile row.               *)
(***************************************************************************)
EXTENDS Integers, Sequences, FiniteSets, Bags, TLC

\* ------------------------------------------------------------------ bounds
MaxCalls == 2
MaxSeats == 3
\* fetchData invocations awaiting an answer at the same time
MaxFetches == 2
\* runs of processPending (the effect on [user] of Dashboard)
MaxRuns == 2

\* ---------------------------------------------------------------- universe
NULL == "null"
\* the ids gen_random_uuid() hands out
RideName == {"r1"}
RequestName == {"q1", "q2"}
Driver == "d1"
\* A mounted DriverDashboard.  A decision keeps the list its click saw until
\* its last write, so a second tab acting on an old list is a call of this
\* one whose click came before the refresh.
Session == {"s1"}
\* auth.uid() of a dashboard session
SessionUser(s) == Driver
\* registered passengers (profiles.id); a guest books with passenger_id NULL
Passenger == {"p1", "p2"}
Decision == {"approve", "deny"}
\* the places typed into the origin and destination fields of OfferRide;
\* ALL is the entry FindRide puts on top of both filter lists
ALL == "All Locations"
Place == {"Ithaca", ALL}
\* instants: departure and arrival times, and the clock of a query
Instant == 0..2
\* the subscribed views: FindRide, DriverDashboard, MyRequests of a passenger
View == {"find", "dash"} \cup Passenger
\* the panels of Dashboard that start behind a loader
Panel == {"MyRequests", "MyTrips", "RideHistory", "DriverDashboard"}

VARIABLES
    rides,      \* table public.rides: id -> row
    requests,   \* table public.requests: id -> row
    cRides,     \* per session: useState rides, id -> cached available_seats
    cReqs,      \* per session: useState requestsByRide, id -> cached status
    fetching,   \* per session: position of the running fetchData
    calls,      \* the handleRequestDecision invocations in flight (a bag)
    started,    \* how many invocations were started so far
    toast,      \* the toast on screen: what the last finished invocation showed
    observed,   \* whether log is kept (fixed by the initial state)
    log,        \* history: per request, the decisions asked of it so far
    find,       \* FindRide: useState rides (fetched list) and the two filters
    mine,       \* MyRequests, per passenger: useState requests
    events,     \* change events not yet handled, per subscribed view
    user,       \* useAuth().user of the browser whose panels are followed
    panel,      \* per panel of Dashboard: where its effect is, and useState loading
    clock,      \* new Date(): the instant it is
    fetches,    \* the fetchData invocations of the dashboard awaiting an answer
    asOf,       \* the instant of the fetchData started last
    store,      \* localStorage: the items pendingPosting and pendingBooking
    runs,       \* the processPending invocations awaiting an insert
    launched,   \* how many processPending invocations were started so far
    authUsers,  \* table auth.users: the ids signed up
    profiles,   \* table public.profiles: id -> row
    signup      \* Auth: the form as submitted, and where handleSignUp is

\* what the database and the driver's session leave alone
aside == <<user, panel, clock, fetches, asOf, store, runs, launched,
           authUsers, profiles, signup>>

vars == <<rides, requests, cRides, cReqs, fetching, calls, started, toast,
          observed, log, find, mine, events, aside>>

RideId == DOMAIN rides
ReqId == DOMAIN requests

\* ---------------------------------------------------------- the database
\* the table created without its CHECK constraints
RideChecksMissing(row) == TRUE

\* CHECK constraints of public.rides (a violated CHECK rejects the statement)
RideChecks(row) ==
    /\ row.total_seats > 0
    /\ row.available_seats >= 0
    /\ row.cost_per_person \in Int /\ row.cost_per_person >= 0
    /\ row.available_seats =< row.total_seats

\* the table without UNIQUE(ride_id, passenger_id)
RequestChecksNoUnique(row) ==
    row.seats_requested > 0 /\ row.ride_id \in RideId

\* UNIQUE NULLS NOT DISTINCT in place of UNIQUE
RequestChecksNullsEqual(row) ==
    /\ row.seats_requested > 0
    /\ row.ride_id \in RideId
    /\ \A q \in ReqId :
          ~(requests[q].ride_id = row.ride_id
            /\ requests[q].passenger_id = row.passenger_id)

\* the table without CHECK (seats_requested > 0)
RequestChecksNoSeats(row) ==
    /\ row.ride_id \in RideId
    /\ \/ row.passenger_id = NULL
       \/ \A q \in ReqId :
            ~(requests[q].ride_id = row.ride_id
              /\ requests[q].passenger_id = row.passenger_id)

\* CHECK (seats_requested > 0) and UNIQUE(ride_id, passenger_id); NULLs are
\* distinct for UNIQUE, so guest rows never collide
RequestChecks(row) ==
    /\ row.seats_requested > 0
    /\ row.ride_id \in RideId
    /\ \/ row.passenger_id = NULL
       \/ \A q \in ReqId :
            ~(requests[q].ride_id = row.ride_id
              /\ requests[q].passenger_id = row.passenger_id)

\* policy "Drivers can update own rides": USING (auth.uid() = driver_id)
MayUpdateRide(uid, r) ==
    r \in RideId /\ uid # NULL /\ rides[r].driver_id = uid

\* the policy with USING (true)
MayUpdateRequestAnyone(uid, q) == q \in ReqId

\* the policy with NULL = NULL taken for true
MayUpdateRequestNullEqual(uid, q) ==
    q \in ReqId /\ rides[requests[q].ride_id].driver_id = uid

\* policy "Drivers can update requests for own rides"
MayUpdateRequest(uid, q) ==
    q \in ReqId /\ uid # NULL /\ rides[requests[q].ride_id].driver_id = uid

\* the update without its .eq("id", requestId) filter
UpdateStatusUnfiltered(uid, q, st) ==
    [x \in ReqId |-> IF MayUpdateRequest(uid, x)
                     THEN [requests[x] EXCEPT !.status = st]
                     ELSE requests[x]]

\* update requests set status = st where id = q  (rows the policy hides are
\* skipped without an error)
UpdateStatus(uid, q, st) ==
    IF MayUpdateRequest(uid, q)
    THEN [requests EXCEPT ![q].status = st]
    ELSE requests

\* a nullable integer as the trigger sees it: {} is NULL, {n} the value n
IsNull(x) == x = {}

\* trigger rides_sync_seats_aliases, BEFORE INSERT OR UPDATE, on the three
\* seat columns of NEW: each is filled from another only while it IS NULL
SyncSeatsAliases(new) ==
    LET n1 == IF IsNull(new.available_seats) /\ ~IsNull(new.seats_available)
              THEN [new EXCEPT !.available_seats = new.seats_available]
              ELSE new
        n2 == IF IsNull(n1.seats_available) /\ ~IsNull(n1.available_seats)
              THEN [n1 EXCEPT !.seats_available = n1.available_seats]
              ELSE n1
        n3 == IF IsNull(n2.total_seats)
              THEN IF ~IsNull(n2.available_seats)
                   THEN [n2 EXCEPT !.total_seats = n2.available_seats]
                   ELSE IF ~IsNull(n2.seats_available)
                        THEN [n2 EXCEPT !.total_seats = n2.seats_available]
                        ELSE n2
              ELSE n2
        n4 == IF IsNull(n3.available_seats) /\ ~IsNull(n3.total_seats)
              THEN [n3 EXCEPT !.available_seats = n3.total_seats]
              ELSE n3
    IN IF IsNull(n4.seats_available) /\ ~IsNull(n4.total_seats)
       THEN [n4 EXCEPT !.seats_available = n4.total_seats]
       ELSE n4

\* the row the trigger hands on to be stored; NEW is the row of the INSERT,
\* or on UPDATE the old row with the SET columns replaced.  The clients name
\* available_seats and total_seats in every insert and never seats_available,
\* so that one alone can be NULL (kept as {} or {n})
Triggered(row) ==
    LET new == SyncSeatsAliases([available_seats |-> {row.available_seats},
                                 seats_available |-> row.seats_available,
                                 total_seats |-> {row.total_seats}])
    IN [row EXCEPT !.seats_available = new.seats_available]

\* update rides set available_seats = n where id = r; a row the policy
\* shows whose new value violates a CHECK makes the statement fail
SeatsRejected(uid, r, n) ==
    MayUpdateRide(uid, r)
    /\ ~RideChecks(Triggered([rides[r] EXCEPT !.available_seats = n]))

\* the update writing total_seats along with available_seats
UpdateSeatsAndTotal(uid, r, n) ==
    IF r \in RideId /\ uid # NULL /\ rides[r].driver_id = uid
    THEN [rides EXCEPT ![r] = Triggered([@ EXCEPT !.available_seats = n,
                                                       !.total_seats = n])]
    ELSE rides

UpdateSeats(uid, r, n) ==
    IF MayUpdateRide(uid, r)
    THEN [rides EXCEPT ![r] = Triggered([@ EXCEPT !.available_seats = n])]
    ELSE rides

\* sum of seats_requested over the approved requests of ride r
RECURSIVE SumSeats(_)
SumSeats(qs) ==
    IF qs = {} THEN 0
    ELSE LET q == CHOOSE x \in qs : TRUE
         IN requests[q].seats_requested + SumSeats(qs \ {q})

ApprovedSeats(r) ==
    SumSeats({q \in ReqId : requests[q].ride_id = r
                            /\ requests[q].status = "approved"})

\* insert: the table with one more row, under an id not in use
NewRow(table, names, row) ==
    LET id == CHOOSE x \in names \ DOMAIN table : TRUE
    IN [x \in DOMAIN table \cup {id} |-> IF x = id THEN row ELSE table[x]]

\* ------------------------------------------------------------------- Init
InitCore ==
    /\ rides = <<>>
    /\ requests = <<>>
    /\ cRides = [s \in Session |-> <<>>]
    /\ cReqs = [s \in Session |-> <<>>]
    /\ fetching = [s \in Session |-> "idle"]
    /\ calls = EmptyBag
    /\ started = 0
    /\ toast = "none"
    /\ log = <<>>
    /\ find = [list |-> <<>>, originFilter |-> ALL, destinationFilter |-> ALL]
    /\ mine = [p \in Passenger |-> <<>>]
    /\ user = NULL
    /\ panel = [p \in Panel |-> [pc |-> "unmounted", loading |-> TRUE]]
    /\ clock = 0
    /\ fetches = {}
    /\ asOf = 0
    /\ store = [posting |-> {}, booking |-> {}]
    /\ runs = {}
    /\ launched = 0
    /\ authUsers = {}
    /\ profiles = <<>>
    /\ signup = [pc |-> "idle"]

Init == InitCore /\ observed = FALSE /\ events = <<>>

InitObserved == InitCore /\ observed = TRUE /\ events = <<>>

\* ------------------------------------------------------------- realtime
\* the publication with public.rides alone
PublishedRidesOnly == {"rides"}

\* the tables of publication supabase_realtime
Published == {"rides", "requests"}

\* the component of view v is mounted (an unmounted one has removed its
\* channels); the dashboard is gone once its list has thrown while rendering
Mounted(v) ==
    v = "dash" => \A s \in Session :
        \A q \in DOMAIN cReqs[s] :
            ~(/\ requests[q].ride_id \in DOMAIN cRides[s]
              /\ cReqs[s][q] = "approved"
              /\ requests[q].passenger_id = NULL)

\* the channel of view v delivers a change of this ride row: FindRide listens
\* to every ride, the dashboard to driver_id=eq.<user>
HearsRide(v, row) ==
    /\ "rides" \in Published
    /\ \/ v = "find"
       \/ v = "dash" /\ row.driver_id = Driver

\* ... of this request row: MyRequests listens to passenger_id=eq.<user>; the
\* dashboard to every request it may select (those of the driver's rides)
HearsRequest(v, row, ridesNow) ==
    /\ "requests" \in Published
    /\ \/ v \in Passenger /\ row.passenger_id = v
       \/ v = "dash" /\ row.ride_id \in DOMAIN ridesNow
                     /\ ridesNow[row.ride_id].driver_id = Driver

\* every committed change of a row of a published table becomes a change
\* event on the channels that hear it
Publish ==
    events' =
      IF DOMAIN events = {} THEN events
      ELSE [v \in View |->
              \/ events[v]
              \/ /\ Mounted(v)
                 /\ \/ \E r \in DOMAIN rides' :
                          /\ r \notin RideId \/ rides'[r] # rides[r]
                          /\ HearsRide(v, rides'[r])
                    \/ \E q \in DOMAIN requests' :
                          /\ q \notin ReqId \/ requests'[q] # requests[q]
                          /\ HearsRequest(v, requests'[q], rides')]

\* ----------------------------------------------------------- OfferRide
\* the row handleSubmit inserts: the arrival time and the cost per person are
\* computed from the lengths of the two place names (both required, so the
\* distance is positive), total and available seats are both the seats typed
\* mockDurationMinutes, and the arrival it gives counted in instants
Minutes(origin, destination) ==
    ((Len(origin) + Len(destination)) * 12 * 60 * 2 + 55) \div (55 * 2)
Duration(origin, destination) ==
    IF Minutes(origin, destination) > 0 THEN 1 ELSE 0
\* costPerPerson = totalFuelCost / (seatsNum + 1), by its sign; a division by
\* zero gives Infinity, which JSON sends as null
CostPerPerson(seats) ==
    IF seats + 1 = 0 THEN NULL ELSE IF seats + 1 > 0 THEN 1 ELSE -1
RideRow(uid, origin, destination, datetime, seats) ==
    [driver_id |-> uid, origin |-> origin, destination |-> destination,
     departure_time |-> datetime,
     arrival_time |-> datetime + Duration(origin, destination),
     total_seats |-> seats, available_seats |-> seats,
     seats_available |-> {},
     cost_per_person |-> CostPerPerson(seats)]

\* policies "Drivers can create rides" (auth.uid() = driver_id) and "Guests
\* can create rides" (auth.uid() IS NULL AND driver_id IS NULL)
MayInsertRide(uid, row) ==
    \/ uid # NULL /\ row.driver_id = uid
    \/ uid = NULL /\ row.driver_id = NULL

\* supabase.from("rides").insert(row), and the toast that follows it
InsertRide(uid, row) ==
    /\ RideName \ RideId # {}
    /\ IF MayInsertRide(uid, row) /\ RideChecks(Triggered(row))
       THEN /\ rides' = NewRow(rides, RideName, Triggered(row))
            /\ toast' = "posted"
       ELSE rides' = rides /\ toast' = "check"
    /\ UNCHANGED <<requests, cRides, cReqs, fetching, calls, started,
                   observed, log, find, mine, aside>>
    /\ Publish

\* handleSubmit, both branches: a guest needs an email and posts with
\* driver_id null, a signed-in driver posts under the own id
HandleSubmit(uid, origin, destination, datetime, seats, email) ==
    IF uid = NULL /\ email = ""
    THEN /\ toast' = "email required"
         /\ UNCHANGED <<rides, requests, cRides, cReqs, fetching, calls,
                        started, observed, log, find, mine, events, aside>>
    ELSE InsertRide(uid, RideRow(uid, origin, destination, datetime, seats))

\* processPending, pending posting: the posting kept in localStorage is
\* inserted as it is under the id of the user now signed in
PostingRow(uid, posting) ==
    [driver_id |-> uid, origin |-> posting.origin,
     destination |-> posting.destination,
     departure_time |-> posting.departure_time,
     arrival_time |-> posting.arrival_time,
     total_seats |-> posting.total_seats,
     available_seats |-> posting.available_seats,
     seats_available |-> {},
     cost_per_person |-> posting.cost_per_person]
ProcessPendingPosting(uid, posting) ==
    uid # NULL /\ InsertRide(uid, PostingRow(uid, posting))

\* a stored posting: the columns an insert into rides needs
Posting ==
    [origin : Place, destination : {"Ithaca"},
     departure_time : Instant, arrival_time : Instant,
     total_seats : 0..MaxSeats, available_seats : 0..MaxSeats,
     cost_per_person : {-1, 1}]

\* handleSubmit, signed-in branch: insert with total = available = seatsNum
CreateRide(seats) ==
    LET row == RideRow(Driver, "Ithaca", "Ithaca", 1, seats)
    IN /\ RideName \ RideId # {}
       /\ RideChecks(Triggered(row))
       /\ rides' = NewRow(rides, RideName, Triggered(row))
       /\ UNCHANGED <<requests, cRides, cReqs, fetching, calls, started,
                      toast, observed, find, mine, log, aside>>
       /\ Publish

\* ------------------------------------------------------------- FindRide
\* handleBooking: insert a request; status takes the column default
CreateRequest(r, p, seats) ==
    LET row == [ride_id |-> r, passenger_id |-> p, seats_requested |-> seats,
                status |-> "pending"]
    IN /\ RequestName \ ReqId # {}
       /\ RequestChecks(row)
       /\ requests' = NewRow(requests, RequestName, row)
       /\ log' = IF observed THEN [q \in DOMAIN requests' |->
                                     IF q \in ReqId THEN log[q] ELSE {}]
                  ELSE log
       /\ UNCHANGED <<rides, cRides, cReqs, fetching, calls, started, toast,
                      observed, find, mine, aside>>
       /\ Publish

\* who books next on ride r: a guest, a passenger who has booked it already
\* (the insert is rejected), or one who has not; which of those who have not
\* makes no difference, so one stands for them
BookedBy(r) == {requests[q].passenger_id : q \in {x \in ReqId : requests[x].ride_id = r}}
Booker(r) ==
    {NULL} \cup (Passenger \cap BookedBy(r))
           \cup (IF Passenger \subseteq BookedBy(r) THEN {}
                 ELSE {CHOOSE p \in Passenger : p \notin BookedBy(r)})

\* a change event of view v is handled by fetching again: the fetch that
\* starts now sees every change committed so far
Handled(v) ==
    events' = IF DOMAIN events = {} THEN events ELSE [events EXCEPT ![v] = FALSE]

\* fetchRides: the rides with departure_time > now and available_seats > 0
OpenRides(now) ==
    {r \in RideId : rides[r].departure_time > now
                    /\ rides[r].available_seats > 0}

\* .order("departure_time", { ascending: true }): the rows in an order of
\* ascending departure_time (rows of equal time come in either order)
Ordered(rs) ==
    {l \in [1..Cardinality(rs) -> rs] :
        /\ \A i, j \in 1..Cardinality(rs) : i # j => l[i] # l[j]
        /\ \A i, j \in 1..Cardinality(rs) :
              i < j => rides[l[i]].departure_time =< rides[l[j]].departure_time}

FetchOpenRides(now) ==
    /\ \E l \in Ordered(OpenRides(now)) : find' = [find EXCEPT !.list = l]
    /\ Handled("find")
    /\ UNCHANGED <<rides, requests, cRides, cReqs, fetching, calls, started,
                   toast, observed, log, mine, aside>>

\* setOrigins / setDestinations: the entries of the two filter lists
Origins == {ALL} \cup {rides[find.list[i]].origin : i \in DOMAIN find.list}
Destinations ==
    {ALL} \cup {rides[find.list[i]].destination : i \in DOMAIN find.list}

\* picking an entry of a filter list, and the Clear button
SetOriginFilter(o) ==
    /\ o \in Origins
    /\ find' = [find EXCEPT !.originFilter = o]
    /\ UNCHANGED <<rides, requests, cRides, cReqs, fetching, calls, started,
                   toast, observed, log, mine, events, aside>>

SetDestinationFilter(d) ==
    /\ d \in Destinations
    /\ find' = [find EXCEPT !.destinationFilter = d]
    /\ UNCHANGED <<rides, requests, cRides, cReqs, fetching, calls, started,
                   toast, observed, log, mine, events, aside>>

ClearFilters ==
    /\ find' = [find EXCEPT !.originFilter = ALL, !.destinationFilter = ALL]
    /\ UNCHANGED <<rides, requests, cRides, cReqs, fetching, calls, started,
                   toast, observed, log, mine, events, aside>>

\* the rides FindRide renders: rides.filter(...)
Matches(f, r) ==
    /\ f.originFilter = ALL \/ rides[r].origin = f.originFilter
    /\ f.destinationFilter = ALL \/ rides[r].destination = f.destinationFilter
Shown(f) == SelectSeq(f.list, LAMBDA r : Matches(f, r))

\* policies "Passengers can create requests" (auth.uid() = passenger_id) and
\* "Guests can create requests" (auth.uid() IS NULL AND passenger_id IS NULL)
MayInsertRequest(uid, row) ==
    \/ uid # NULL /\ row.passenger_id = uid
    \/ uid = NULL /\ row.passenger_id = NULL

\* error.message of a rejected insert, by the constraint it names, in the
\* order the database tests them
InsertError(uid, row) ==
    IF ~MayInsertRequest(uid, row) THEN "policy"
    ELSE IF row.seats_requested =< 0 THEN "check"
    ELSE IF row.passenger_id # NULL
            /\ \E q \in ReqId : /\ requests[q].ride_id = row.ride_id
                                /\ requests[q].passenger_id = row.passenger_id
         THEN "unique"
    ELSE IF row.ride_id \notin RideId THEN "foreign key"
    ELSE "error"

\* supabase.from("requests").insert(row), and the toast that follows it
InsertRequest(uid, row) ==
    /\ RequestName \ ReqId # {}
    /\ IF MayInsertRequest(uid, row) /\ RequestChecks(row)
       THEN /\ requests' = NewRow(requests, RequestName, row)
            /\ toast' = "sent"
       ELSE /\ requests' = requests
            /\ toast' = InsertError(uid, row)
    /\ UNCHANGED <<rides, cRides, cReqs, fetching, calls, started, observed,
                   log, find, mine, aside>>
    /\ Publish

\* the row handleBooking inserts for the ride selected: a guest's carries
\* the contact email, status is left to the column default
BookingRow(uid, r, seats, email) ==
    [ride_id |-> r, passenger_id |-> uid, seats_requested |-> seats,
     status |-> "pending",
     contact_email |-> IF uid = NULL THEN email ELSE NULL]

\* handleBooking: a guest without an email is sent back to the form
HandleBooking(uid, r, seats, email) ==
    IF uid = NULL /\ email = ""
    THEN /\ toast' = "email required"
         /\ UNCHANGED <<rides, requests, cRides, cReqs, fetching, calls,
                        started, observed, log, find, mine, events, aside>>
    ELSE InsertRequest(uid, BookingRow(uid, r, seats, email))

\* processPending, pending booking: the booking kept in localStorage is
\* inserted with the id of the user now signed in
ReplayRow(uid, booking) ==
    [ride_id |-> booking.ride_id, passenger_id |-> uid,
     seats_requested |-> booking.seats_requested, status |-> "pending",
     contact_email |-> NULL]
ProcessPendingBooking(uid, booking) ==
    uid # NULL /\ InsertRequest(uid, ReplayRow(uid, booking))

\* what a booking form can hold
Email == {"", "a@x.org"}
Seats == (-1)..MaxSeats
Booking == [ride_id : RideName, seats_requested : Seats]

\* ------------------------------------------------------ DriverDashboard
\* fetchData, first query: the driver's rides; setRides(ridesData)
OwnRides(uid) == {r \in RideId : rides[r].driver_id = uid}

\* The list renders request.profiles.full_name of every approved request of
\* a cached ride; profiles is the join on passenger_id, null for a guest
\* request, and reading a property of null throws: the component is gone
Renders(s) ==
    \A q \in DOMAIN cReqs[s] :
        ~(/\ requests[q].ride_id \in DOMAIN cRides[s]
          /\ cReqs[s][q] = "approved"
          /\ requests[q].passenger_id = NULL)

FetchRides(s) ==
    /\ fetching[s] = "idle"
    /\ Renders(s)
    /\ cRides' = [cRides EXCEPT ![s] =
                    [r \in OwnRides(SessionUser(s)) |-> rides[r].available_seats]]
    /\ fetching' = [fetching EXCEPT ![s] = "rides"]
    /\ UNCHANGED <<rides, requests, cReqs, calls, started, toast, observed,
                   find, mine, log, events, aside>>

\* fetchData, second query: the requests of the rides just fetched, made
\* only when there is at least one ride; setRequestsByRide(grouped)
FetchRequests(s) ==
    /\ fetching[s] = "rides"
    /\ cReqs' = [cReqs EXCEPT ![s] =
                   IF DOMAIN cRides[s] = {} THEN cReqs[s]
                   ELSE [q \in {x \in ReqId : requests[x].ride_id \in DOMAIN cRides[s]}
                           |-> requests[q].status]]
    /\ fetching' = [fetching EXCEPT ![s] = "idle"]
    /\ UNCHANGED <<rides, requests, cRides, calls, started, toast, observed,
                   find, mine, log, events, aside>>

\* the branch test of handleRequestDecision
EnoughSeats(avail, seats) == avail >= seats

\* an approval that leaves the seat count as it is
NewSeatsKept(avail, seats) == avail

\* the new available_seats handleRequestDecision writes
NewSeats(avail, seats) == avail - seats

\* the first await of handleRequestDecision for a decision
FirstWrite(decision, avail, seats) ==
    IF decision = "approve"
    THEN IF EnoughSeats(avail, seats) THEN "reqWrite" ELSE "autoDeny"
    ELSE "denyWrite"

\* an invocation in flight: the request and the cached ride.available_seats
\* its click found, and the statement it is waiting for
Call(s, q, d) ==
    [sess |-> s, req |-> q, decision |-> d,
     avail |-> cRides[s][requests[q].ride_id],
     pc |-> FirstWrite(d, cRides[s][requests[q].ride_id],
                       requests[q].seats_requested)]

InFlight == BagToSet(calls)
Add(c) == calls (+) SetToBag({c})
Remove(c) == calls (-) SetToBag({c})

\* A click on Approve or Deny: the buttons exist for the requests the cache
\* shows as pending under a cached ride; the handler takes request and ride
\* from the cache and runs up to its first await
Decide(s, q, d) ==
    /\ started < MaxCalls
    /\ Renders(s)
    /\ q \in DOMAIN cReqs[s] /\ cReqs[s][q] = "pending"
    /\ requests[q].ride_id \in DOMAIN cRides[s]
    /\ calls' = Add(Call(s, q, d))
    /\ started' = started + 1
    /\ log' = IF observed THEN [log EXCEPT ![q] = @ \cup {d}] ELSE log
    /\ UNCHANGED <<rides, requests, cRides, cReqs, fetching, toast, observed,
                   find, mine, events, aside>>

\* handleRequestDecision called with a request id or a ride id that the
\* cached lists do not hold: the lookup finds nothing and the handler returns
DecideUnknown(s, q, r, d) ==
    /\ started < MaxCalls
    /\ Renders(s)
    /\ q \notin DOMAIN cReqs[s] \/ r \notin DOMAIN cRides[s]
    /\ started' = started + 1
    /\ UNCHANGED <<rides, requests, cRides, cReqs, fetching, calls, toast,
                   observed, log, find, mine, events, aside>>

\* The statements of a decision sent by someone who is not the driver of the
\* ride (another user's token, or none): rides can be read by anyone, so the
\* caller computes from the stored seats; rows the policies hide from the
\* caller are not updated and the answer carries no error
ForeignDecision(uid, q, d) ==
    LET r == requests[q].ride_id
        seats == requests[q].seats_requested
        avail == rides[r].available_seats
    IN /\ ~MayUpdateRide(uid, r)
       /\ requests' = UpdateStatus(uid, q,
                         IF d = "approve" /\ EnoughSeats(avail, seats)
                         THEN "approved" ELSE "denied")
       /\ rides' = IF d = "approve" /\ EnoughSeats(avail, seats)
                      /\ ~SeatsRejected(uid, r, NewSeats(avail, seats))
                   THEN UpdateSeats(uid, r, NewSeats(avail, seats))
                   ELSE rides
       /\ toast' = "no row"
       /\ UNCHANGED <<cRides, cReqs, fetching, calls, started, observed, log,
                      find, mine, aside>>
       /\ Publish

\* the session's auth.uid(), the ride and seats_requested of the request
CallUser(c) == SessionUser(c.sess)
CallRide(c) == requests[c.req].ride_id
CallSeats(c) == requests[c.req].seats_requested

\* the toast after the last write names request.profiles.full_name: for a
\* guest request profiles is null, the read throws after the writes, and the
\* catch block shows the error instead
Toast(c, shown) ==
    IF requests[c.req].passenger_id = NULL THEN "error" ELSE shown

\* a failed statement in the history, when it is kept
Failed(c) == IF observed THEN [log EXCEPT ![c.req] = @ \cup {"failed"}] ELSE log

\* approve branch, first write: update requests set status = 'approved';
\* ok = FALSE is the statement failing (requestError), which is thrown
ApproveStatusWrite(c, ok) ==
    /\ c \in InFlight /\ c.pc = "reqWrite"
    /\ IF ok
       THEN /\ requests' = UpdateStatus(CallUser(c), c.req, "approved")
            /\ calls' = Add([c EXCEPT !.pc = "rideWrite"]) (-) SetToBag({c})
            /\ UNCHANGED <<toast, log>>
       ELSE /\ requests' = requests
            /\ calls' = Remove(c)
            /\ toast' = "error"
            /\ log' = Failed(c)
    /\ UNCHANGED <<rides, cRides, cReqs, fetching, started, observed, find, mine,
                   aside>>
    /\ Publish

\* approve branch, second write: update rides set available_seats =
\* ride.available_seats - request.seats_requested, both from the cache
ApproveSeatsWrite(c, ok) ==
    /\ c \in InFlight /\ c.pc = "rideWrite"
    /\ LET n == NewSeats(c.avail, CallSeats(c))
       IN IF ok /\ ~SeatsRejected(CallUser(c), CallRide(c), n)
          THEN /\ rides' = UpdateSeats(CallUser(c), CallRide(c), n)
               /\ toast' = Toast(c, "approved")
               /\ log' = log
          ELSE /\ rides' = rides
               /\ toast' = "error"
               /\ log' = Failed(c)
    /\ calls' = Remove(c)
    /\ UNCHANGED <<requests, cRides, cReqs, fetching, started, observed, find, mine,
                   aside>>
    /\ Publish

\* not enough seats in the cached ride: update requests set status =
\* 'denied'; the result of the statement is not looked at
AutoDenyWrite(c, ok) ==
    /\ c \in InFlight /\ c.pc = "autoDeny"
    /\ requests' = IF ok THEN UpdateStatus(CallUser(c), c.req, "denied")
                   ELSE requests
    /\ log' = IF ok THEN log ELSE Failed(c)
    /\ toast' = "autoDenied"
    /\ calls' = Remove(c)
    /\ UNCHANGED <<rides, cRides, cReqs, fetching, started, observed, find, mine,
                   aside>>
    /\ Publish

\* deny: update requests set status = 'denied'; an error is thrown
DenyWrite(c, ok) ==
    /\ c \in InFlight /\ c.pc = "denyWrite"
    /\ IF ok
       THEN /\ requests' = UpdateStatus(CallUser(c), c.req, "denied")
            /\ toast' = Toast(c, "denied")
            /\ log' = log
       ELSE /\ requests' = requests
            /\ toast' = "error"
            /\ log' = Failed(c)
    /\ calls' = Remove(c)
    /\ UNCHANGED <<rides, cRides, cReqs, fetching, started, observed, find, mine,
                   aside>>
    /\ Publish

\* ------------------------------------------------------------------- Next
Next ==
    \/ \E n \in (-1)..MaxSeats : CreateRide(n)
    \/ \E r \in RideId : \E p \in Booker(r), n \in 0..MaxSeats : CreateRequest(r, p, n)
    \/ \E s \in Session : FetchRides(s)
    \/ \E s \in Session : FetchRequests(s)
    \/ \E s \in Session, q \in ReqId, d \in Decision : Decide(s, q, d)
    \/ \E c \in InFlight, ok \in BOOLEAN : ApproveStatusWrite(c, ok)
    \/ \E c \in InFlight, ok \in BOOLEAN : ApproveSeatsWrite(c, ok)
    \/ \E c \in InFlight, ok \in BOOLEAN : AutoDenyWrite(c, ok)
    \/ \E c \in InFlight, ok \in BOOLEAN : DenyWrite(c, ok)
    \/ \E s \in Session, q \in RequestName, r \in RideName, d \in Decision :
          DecideUnknown(s, q, r, d)

\* the program
Spec == Init /\ [][Next]_vars

\* posting rides and booking them, by guests and by registered passengers
NextBooking ==
    \/ \E n \in 1..MaxSeats : CreateRide(n)
    \/ \E uid \in Passenger \cup {NULL}, r \in RideId, n \in Seats, e \in Email :
          HandleBooking(uid, r, n, e)
    \/ \E uid \in Passenger, b \in Booking : ProcessPendingBooking(uid, b)

SpecBooking == Init /\ [][NextBooking]_vars

\* rides, bookings, and decisions sent by those who do not drive the ride
NextForeign ==
    \/ \E n \in 1..MaxSeats : CreateRide(n)
    \/ \E r \in RideId : \E p \in Booker(r), n \in 1..MaxSeats : CreateRequest(r, p, n)
    \/ \E uid \in Passenger \cup {NULL}, q \in ReqId, d \in Decision :
          ForeignDecision(uid, q, d)

SpecForeign == Init /\ [][NextForeign]_vars

\* FindRide over a table of rides as drivers and approvals have left it
ListedRow ==
    {row \in [driver_id : {Driver}, origin : Place, destination : {"Ithaca"},
              departure_time : Instant, arrival_time : {2},
              total_seats : {1}, available_seats : 0..1,
              seats_available : {{1}},
              cost_per_person : {1}] : RideChecks(row)}
ListedName == {"r1", "r2"}
InitFind ==
    /\ rides \in UNION {[ids -> ListedRow] : ids \in SUBSET ListedName}
    /\ requests = <<>>
    /\ cRides = [s \in Session |-> <<>>]
    /\ cReqs = [s \in Session |-> <<>>]
    /\ fetching = [s \in Session |-> "idle"]
    /\ calls = EmptyBag
    /\ started = 0
    /\ toast = "none"
    /\ log = <<>>
    /\ find = [list |-> <<>>, originFilter |-> ALL, destinationFilter |-> ALL]
    /\ mine = [p \in Passenger |-> <<>>]
    /\ observed = FALSE
    /\ events = <<>>
    /\ user = NULL
    /\ panel = [p \in Panel |-> [pc |-> "unmounted", loading |-> TRUE]]
    /\ clock = 0
    /\ fetches = {}
    /\ asOf = 0
    /\ store = [posting |-> {}, booking |-> {}]
    /\ runs = {}
    /\ launched = 0
    /\ authUsers = {}
    /\ profiles = <<>>
    /\ signup = [pc |-> "idle"]

NextFind ==
    \/ \E now \in Instant : FetchOpenRides(now)
    \/ \E o \in Place : SetOriginFilter(o)
    \/ \E d \in Place : SetDestinationFilter(d)
    \/ ClearFilters

SpecFind == InitFind /\ [][NextFind]_vars

\* ------------------------------------------------ the views kept current
\* FindRide, callback of channel "rides-changes": fetchRides()
OnFindEvent ==
    /\ DOMAIN events # {} /\ events["find"]
    /\ \E now \in {0} : FetchOpenRides(now)

\* MyRequests of passenger p, callback of channel "requests-changes":
\* fetchRequests(), the passenger's own requests
OnMineEvent(p) ==
    /\ DOMAIN events # {} /\ events[p]
    /\ mine' = [mine EXCEPT ![p] =
                  [q \in {x \in ReqId : requests[x].passenger_id = p}
                     |-> requests[q].status]]
    /\ Handled(p)
    /\ UNCHANGED <<rides, requests, cRides, cReqs, fetching, calls, started,
                   toast, observed, log, find, aside>>

\* DriverDashboard, callbacks of "driver-rides" and "driver-requests":
\* fetchData(), started whether or not an earlier one is still running
OnDashEvent(s) ==
    /\ DOMAIN events # {} /\ events["dash"]
    /\ Renders(s)
    /\ cRides' = [cRides EXCEPT ![s] =
                    [r \in OwnRides(SessionUser(s)) |-> rides[r].available_seats]]
    /\ fetching' = [fetching EXCEPT ![s] = "rides"]
    /\ Handled("dash")
    /\ UNCHANGED <<rides, requests, cReqs, calls, started, toast, observed,
                   log, find, mine, aside>>

InitLive == InitCore /\ observed = FALSE /\ events = [v \in View |-> FALSE]

NextLive ==
    \/ \E n \in {1, MaxSeats} : CreateRide(n)
    \/ \E r \in RideId : \E p \in Booker(r), n \in {1, MaxSeats} : CreateRequest(r, p, n)
    \/ \E s \in Session : OnDashEvent(s)
    \/ \E s \in Session : FetchRequests(s)
    \/ OnFindEvent
    \/ \E p \in Passenger : OnMineEvent(p)
    \/ \E s \in Session, q \in ReqId, d \in Decision :
          started = 0 /\ Decide(s, q, d)
    \/ \E c \in InFlight, ok \in {TRUE} : ApproveStatusWrite(c, ok)
    \/ \E c \in InFlight, ok \in {TRUE} : ApproveSeatsWrite(c, ok)
    \/ \E c \in InFlight, ok \in {TRUE} : AutoDenyWrite(c, ok)
    \/ \E c \in InFlight, ok \in {TRUE} : DenyWrite(c, ok)

\* a change event that is waiting is delivered: its callback runs
SpecLive ==
    /\ InitLive /\ [][NextLive]_vars
    /\ \A s \in Session : WF_vars(OnDashEvent(s))
    /\ WF_vars(OnFindEvent)
    /\ \A p \in Passenger : WF_vars(OnMineEvent(p))

\* ------------------------------------------------ one decision at a time
\* a click once the earlier call has returned and the fetchData started by its
\* change events has filled the lists
DecideNext(s, q, d) ==
    /\ calls = EmptyBag
    /\ fetching[s] = "idle"
    /\ DOMAIN events # {} /\ ~events["dash"]
    /\ Decide(s, q, d)

\* one dashboard, passengers booking, every statement succeeding
NextSerial ==
    \/ \E n \in 1..MaxSeats : CreateRide(n)
    \/ \E r \in RideId : \E p \in Booker(r), n \in 1..MaxSeats : CreateRequest(r, p, n)
    \/ \E s \in Session : OnDashEvent(s)
    \/ \E s \in Session : FetchRequests(s)
    \/ \E s \in Session, q \in ReqId, d \in Decision : DecideNext(s, q, d)
    \/ \E c \in InFlight : ApproveStatusWrite(c, TRUE)
    \/ \E c \in InFlight : ApproveSeatsWrite(c, TRUE)
    \/ \E c \in InFlight : AutoDenyWrite(c, TRUE)
    \/ \E c \in InFlight : DenyWrite(c, TRUE)

SpecSerial == InitLive /\ [][NextSerial]_vars

\* a ride posted by a guest or by the driver, bookings, the lists of the
\* driver's dashboard, and decisions sent by anyone who does not own the ride
NextGuestRide ==
    \/ \E uid \in {Driver, NULL}, n \in 1..MaxSeats, e \in Email :
          HandleSubmit(uid, "Ithaca", "Ithaca", 1, n, e)
    \/ \E r \in RideId : \E p \in Booker(r), n \in 1..MaxSeats : CreateRequest(r, p, n)
    \/ \E s \in Session : FetchRides(s)
    \/ \E s \in Session : FetchRequests(s)
    \/ \E uid \in Passenger \cup {Driver, NULL}, q \in ReqId, d \in Decision :
          ForeignDecision(uid, q, d)

SpecGuestRide == Init /\ [][NextGuestRide]_vars

\* ------------------------------------------- fetchData, answer by answer
\* the rows of the dashboard's two queries at instant now: the rides of the
\* driver that depart after now, and the requests of those rides
ListedRides(now) ==
    {r \in RideId : rides[r].driver_id = Driver /\ rides[r].departure_time > now}
RidesData(now) == [r \in ListedRides(now) |-> rides[r].available_seats]
RequestsData(rideIds) ==
    [q \in {x \in ReqId : requests[x].ride_id \in rideIds} |-> requests[q].status]

\* a change event calls fetchData, whether or not an earlier invocation is
\* still waiting: the rides query is sent and answered from the rows of now
StartFetch(s) ==
    /\ DOMAIN events # {} /\ events["dash"]
    /\ Renders(s)
    /\ Cardinality(fetches) < MaxFetches
    /\ fetches' = fetches \cup {[pc |-> "rides", rides |-> RidesData(clock),
                                  reqs |-> <<>>]}
    /\ asOf' = clock
    /\ Handled("dash")
    /\ UNCHANGED <<rides, requests, cRides, cReqs, fetching, calls, started,
                   toast, observed, log, find, mine, user, panel, clock,
                   store, runs, launched,
                   authUsers, profiles, signup>>

\* the answer of the rides query reaches the component: setRides(ridesData);
\* with at least one ride the requests query is sent, with none fetchData ends
RidesAnswer(s, f) ==
    /\ f \in fetches /\ f.pc = "rides"
    /\ cRides' = [cRides EXCEPT ![s] = f.rides]
    /\ fetches' = IF DOMAIN f.rides = {} THEN fetches \ {f}
                  ELSE (fetches \ {f})
                       \cup {[f EXCEPT !.pc = "requests",
                                        !.reqs = RequestsData(DOMAIN f.rides)]}
    /\ UNCHANGED <<rides, requests, cReqs, fetching, calls, started, toast,
                   observed, log, find, mine, events, user, panel, clock, asOf,
                   store, runs, launched,
                   authUsers, profiles, signup>>

\* the answer of the requests query: setRequestsByRide(grouped)
RequestsAnswer(s, f) ==
    /\ f \in fetches /\ f.pc = "requests"
    /\ cReqs' = [cReqs EXCEPT ![s] = f.reqs]
    /\ fetches' = fetches \ {f}
    /\ UNCHANGED <<rides, requests, cRides, fetching, calls, started, toast,
                   observed, log, find, mine, events, user, panel, clock, asOf,
                   store, runs, launched,
                   authUsers, profiles, signup>>

\* time passes
Tick ==
    /\ clock + 1 \in Instant
    /\ clock' = clock + 1
    /\ UNCHANGED <<rides, requests, cRides, cReqs, fetching, calls, started,
                   toast, observed, log, find, mine, events, user, panel,
                   fetches, asOf, store, runs, launched,
                   authUsers, profiles, signup>>

NextConverge ==
    \/ \E n \in {1, MaxSeats} : CreateRide(n)
    \/ \E r \in RideId : \E p \in Booker(r), n \in {1, MaxSeats} : CreateRequest(r, p, n)
    \/ \E s \in Session : StartFetch(s)
    \/ \E s \in Session, f \in fetches : RidesAnswer(s, f)
    \/ \E s \in Session, f \in fetches : RequestsAnswer(s, f)
    \/ Tick

SpecConverge == InitLive /\ [][NextConverge]_vars

\* posting rides, from the form and from a stored posting
NextOffer ==
    \/ \E uid \in {Driver, NULL}, o, d \in Place, t \in Instant, n \in Seats,
          e \in Email : HandleSubmit(uid, o, d, t, n, e)
    \/ \E uid \in {Driver}, p \in Posting : ProcessPendingPosting(uid, p)

SpecOffer == Init /\ [][NextOffer]_vars

\* ------------------------------------------------- the panels of Dashboard
\* what the steps of a panel leave alone
shared == <<rides, requests, cRides, cReqs, fetching, calls, started, toast,
            observed, log, find, mine, events, clock, fetches, asOf,
            store, runs, launched, authUsers, profiles, signup>>

\* a tab is opened: the component mounts with useState(true) for loading and
\* renders its loader; its effect is still to run
Mount(p) ==
    /\ panel[p].pc = "unmounted"
    /\ panel' = [panel EXCEPT ![p] = [pc |-> "effect", loading |-> TRUE]]
    /\ UNCHANGED <<shared, user>>

\* the panels whose effect has an else branch calling setLoading(false):
\* MyRequests, MyTrips and DriverDashboard; the effect of RideHistory is
\* "if (user) fetchHistory()" and nothing else
StopsLoading == {"MyRequests", "MyTrips", "DriverDashboard"}

\* useEffect(..., [user]): with a user the fetch is started, without one
\* loading is set to false where the effect has that branch
RunEffect(p) ==
    /\ panel[p].pc = "effect"
    /\ panel' = [panel EXCEPT ![p] =
                   IF user # NULL THEN [@ EXCEPT !.pc = "fetching"]
                   ELSE [pc |-> "idle",
                         loading |-> IF p \in StopsLoading THEN FALSE
                                     ELSE @.loading]]
    /\ UNCHANGED <<shared, user>>

\* the fetch of the panel answers, with rows or with an error: finally
\* setLoading(false)
FetchDone(p) ==
    /\ panel[p].pc = "fetching"
    /\ panel' = [panel EXCEPT ![p] = [pc |-> "idle", loading |-> FALSE]]
    /\ UNCHANGED <<shared, user>>

\* another tab is chosen once the effect has run: the panel is unmounted
Unmount(p) ==
    /\ panel[p].pc \in {"fetching", "idle"}
    /\ panel' = [panel EXCEPT ![p].pc = "unmounted"]
    /\ UNCHANGED <<shared, user>>

\* the session of AuthContext gets a user: every effect on [user] runs again
SignIn(u) ==
    /\ user = NULL
    /\ user' = u
    /\ panel' = [p \in Panel |->
                   IF panel[p].pc = "unmounted" THEN panel[p]
                   ELSE [panel[p] EXCEPT !.pc = "effect"]]
    /\ UNCHANGED shared

NextPanels ==
    \/ \E p \in Panel : Mount(p)
    \/ \E p \in Panel : RunEffect(p)
    \/ \E p \in Panel : FetchDone(p)
    \/ \E p \in Panel : Unmount(p)
    \/ \E u \in Passenger : SignIn(u)

\* an effect that is due runs, and a query that was sent is answered
SpecPanels ==
    /\ Init /\ [][NextPanels]_vars
    /\ \A p \in Panel : WF_vars(RunEffect(p)) /\ WF_vars(FetchDone(p))

\* ------------------------------------------ processPending, step by step
\* ids for the rides of this part: one ride is there, stored postings add more
PendingRideName == {"r1", "r2", "r3"}

\* what localStorage can hold when the user signs in: a posting (an item is
\* kept as the set of what getItem returns, {} for null), a booking
StoredPosting ==
    {p \in Posting : /\ p.origin = "Ithaca" /\ p.departure_time = 1
                     /\ p.arrival_time = 2 /\ p.cost_per_person = 1
                     /\ p.available_seats = p.total_seats}
Stores ==
    [posting : {{}} \cup {{p} : p \in StoredPosting},
     booking : {{}} \cup {{b} : b \in Booking}]

\* the stage a run goes to next: the insert of the stored posting, that of
\* the stored booking, or the end (no run left)
Stage(id, st, from) ==
    IF from = "start" /\ st.posting # {}
    THEN {[id |-> id, pc |-> "posting", item |-> st.posting]}
    ELSE IF st.booking # {}
         THEN {[id |-> id, pc |-> "booking", item |-> st.booking]}
         ELSE {}

\* the effect on [user] runs processPending: with a user, getItem of
\* pendingPosting and the insert sent, or straight on to the booking
StartPending ==
    /\ user # NULL
    /\ launched < MaxRuns
    /\ launched' = launched + 1
    /\ runs' = runs \cup Stage(launched + 1, store, "start")
    /\ UNCHANGED <<rides, requests, cRides, cReqs, fetching, calls, started,
                   toast, observed, log, find, mine, events, user, panel,
                   clock, fetches, asOf, store,
                   authUsers, profiles, signup>>

\* the insert of the posting is answered: on success removeItem and the
\* toast, on an error the toast alone; then getItem of pendingBooking
PostingAnswer(run, ok) ==
    LET posting == CHOOSE x \in run.item : TRUE
        row == Triggered(PostingRow(user, posting))
        done == ok /\ MayInsertRide(user, row) /\ RideChecks(row)
        after == IF done THEN [store EXCEPT !.posting = {}] ELSE store
    IN /\ run \in runs /\ run.pc = "posting"
       /\ PendingRideName \ RideId # {}
       /\ rides' = IF done THEN NewRow(rides, PendingRideName, row) ELSE rides
       /\ toast' = IF done THEN "posted" ELSE "check"
       /\ store' = after
       /\ runs' = (runs \ {run}) \cup Stage(run.id, after, "posting")
       /\ UNCHANGED <<requests, cRides, cReqs, fetching, calls, started,
                      observed, log, find, mine, user, panel, clock, fetches,
                      asOf, launched,
                   authUsers, profiles, signup>>
       /\ Publish

\* the insert of the booking is answered: on success removeItem
BookingAnswer(run, ok) ==
    LET booking == CHOOSE x \in run.item : TRUE
        row == ReplayRow(user, booking)
        done == ok /\ MayInsertRequest(user, row) /\ RequestChecks(row)
    IN /\ run \in runs /\ run.pc = "booking"
       /\ RequestName \ ReqId # {}
       /\ requests' = IF done THEN NewRow(requests, RequestName, row)
                      ELSE requests
       /\ toast' = IF done THEN "sent" ELSE InsertError(user, row)
       /\ store' = IF done THEN [store EXCEPT !.booking = {}] ELSE store
       /\ runs' = runs \ {run}
       /\ UNCHANGED <<rides, cRides, cReqs, fetching, calls, started,
                      observed, log, find, mine, user, panel, clock, fetches,
                      asOf, launched,
                   authUsers, profiles, signup>>
       /\ Publish

\* a browser with stored items and one ride of the driver in the database
InitPending ==
    /\ rides = [r \in {"r1"} |-> Triggered(RideRow(Driver, "Ithaca", "Ithaca",
                                                    1, MaxSeats))]
    /\ requests = <<>>
    /\ cRides = [s \in Session |-> <<>>]
    /\ cReqs = [s \in Session |-> <<>>]
    /\ fetching = [s \in Session |-> "idle"]
    /\ calls = EmptyBag
    /\ started = 0
    /\ toast = "none"
    /\ log = <<>>
    /\ find = [list |-> <<>>, originFilter |-> ALL, destinationFilter |-> ALL]
    /\ mine = [p \in Passenger |-> <<>>]
    /\ observed = FALSE
    /\ events = <<>>
    /\ user = NULL
    /\ panel = [p \in Panel |-> [pc |-> "unmounted", loading |-> TRUE]]
    /\ clock = 0
    /\ fetches = {}
    /\ asOf = 0
    /\ store \in Stores
    /\ runs = {}
    /\ launched = 0
    /\ authUsers = {}
    /\ profiles = <<>>
    /\ signup = [pc |-> "idle"]

NextPending ==
    \/ \E u \in {"p1"} : SignIn(u)
    \/ StartPending
    \/ \E run \in runs, ok \in BOOLEAN : PostingAnswer(run, ok)
    \/ \E run \in runs, ok \in BOOLEAN : BookingAnswer(run, ok)

SpecPending == InitPending /\ [][NextPending]_vars

\* ------------------------------------------------------------- sign-up
\* enum user_role, the ids auth.users hands out, what the form can hold
Role == {"passenger", "driver"}
UserName == {"u1", "u2"}
Phone == {"", "555"}
FullName == "Ann"

\* options.data of supabase.auth.signUp, which becomes raw_user_meta_data:
\* handleSignUp passes email, password and emailRedirectTo, and no data
SignUpMeta(fullName, role) == <<>>

\* trigger handle_new_user, AFTER INSERT ON auth.users: role and full_name
\* are read from raw_user_meta_data, 'passenger' and 'User' standing in for
\* what is missing; ON CONFLICT (id) DO NOTHING
HandleNewUser(id, meta) ==
    LET role_text == IF "role" \in DOMAIN meta THEN meta["role"] ELSE NULL
        name_text == IF "full_name" \in DOMAIN meta THEN meta["full_name"]
                     ELSE NULL
        safe_role == IF role_text = NULL \/ role_text \notin Role
                     THEN "passenger" ELSE role_text
        row == [full_name |-> IF name_text = NULL THEN "User" ELSE name_text,
                role |-> safe_role, phone |-> NULL]
    IN IF id \in DOMAIN profiles THEN profiles
       ELSE [x \in DOMAIN profiles \cup {id} |->
               IF x = id THEN row ELSE profiles[x]]

\* function create_user_profile: INSERT ... ON CONFLICT (id) DO UPDATE
CreateUserProfile(id, fullName, role, phone) ==
    [x \in DOMAIN profiles \cup {id} |->
        IF x # id THEN profiles[x]
        ELSE [full_name |-> fullName, role |-> role,
              phone |-> IF phone = NULL /\ id \in DOMAIN profiles
                        THEN profiles[id].phone ELSE phone]]

\* phone || null
PhoneOrNull(phone) == IF phone = "" THEN NULL ELSE phone

\* handleSignUp up to the answer of supabase.auth.signUp: on an error "Sign
\* up failed"; else the user row is inserted and the trigger has run (created
\* = FALSE: its insert raised and was caught, leaving no profile); session is
\* whether the project signs the user in at once
SubmitSignUp(id, role, phone, ok, created, session) ==
    /\ signup.pc = "idle"
    /\ id \notin authUsers
    /\ IF ok
       THEN /\ authUsers' = authUsers \cup {id}
            /\ profiles' = IF created
                           THEN HandleNewUser(id, SignUpMeta(FullName, role))
                           ELSE profiles
            /\ signup' = [pc |-> "check", id |-> id, role |-> role,
                          phone |-> phone, session |-> session]
            /\ toast' = toast
       ELSE /\ toast' = "Sign up failed"
            /\ UNCHANGED <<authUsers, profiles, signup>>
    /\ UNCHANGED <<rides, requests, cRides, cReqs, fetching, calls, started,
                   observed, log, find, mine, events, user, panel, clock,
                   fetches, asOf, store, runs, launched>>

\* the select of the profile is answered: another error than "no row" is
\* thrown; no row and a session: on to the RPC; no row and no session: the
\* creation is skipped; a row and a phone: on to the update
ProfileCheck(ok) ==
    /\ signup.pc = "check"
    /\ LET next == IF ~ok THEN "failed"
                   ELSE IF signup.id \notin DOMAIN profiles
                        THEN IF signup.session THEN "rpc" ELSE "done"
                        ELSE IF signup.phone # "" THEN "phone" ELSE "done"
       IN /\ signup' = IF next \in {"failed", "done"} THEN [pc |-> "idle"]
                        ELSE [signup EXCEPT !.pc = next]
          /\ toast' = IF next = "failed" THEN "Sign up failed"
                       ELSE IF next = "done" THEN "Account created!"
                       ELSE toast
    /\ UNCHANGED <<rides, requests, cRides, cReqs, fetching, calls, started,
                   observed, log, find, mine, events, user, panel, clock,
                   fetches, asOf, store, runs, launched, authUsers, profiles>>

\* supabase.rpc('create_user_profile', ...): on an error on to the insert
RpcCreate(ok) ==
    /\ signup.pc = "rpc"
    /\ IF ok
       THEN /\ profiles' = CreateUserProfile(signup.id, FullName, signup.role,
                                              PhoneOrNull(signup.phone))
            /\ signup' = [pc |-> "idle"]
            /\ toast' = "Account created!"
       ELSE /\ profiles' = profiles
            /\ signup' = [signup EXCEPT !.pc = "insert"]
            /\ toast' = toast
    /\ UNCHANGED <<rides, requests, cRides, cReqs, fetching, calls, started,
                   observed, log, find, mine, events, user, panel, clock,
                   fetches, asOf, store, runs, launched, authUsers>>

\* the fallback insert into profiles; its error is thrown
DirectInsert(ok) ==
    /\ signup.pc = "insert"
    /\ IF ok /\ signup.id \notin DOMAIN profiles
       THEN /\ profiles' =
                 [x \in DOMAIN profiles \cup {signup.id} |->
                    IF x = signup.id
                    THEN [full_name |-> FullName, role |-> signup.role,
                          phone |-> PhoneOrNull(signup.phone)]
                    ELSE profiles[x]]
            /\ toast' = "Account created!"
       ELSE /\ profiles' = profiles
            /\ toast' = "Sign up failed"
    /\ signup' = [pc |-> "idle"]
    /\ UNCHANGED <<rides, requests, cRides, cReqs, fetching, calls, started,
                   observed, log, find, mine, events, user, panel, clock,
                   fetches, asOf, store, runs, launched, authUsers>>

\* the profile is there: update profiles set phone; policy "Users can update
\* own profile" needs the session; an error is only logged
PhoneUpdate(ok) ==
    /\ signup.pc = "phone"
    /\ profiles' = IF ok /\ signup.session
                   THEN [profiles EXCEPT ![signup.id].phone = signup.phone]
                   ELSE profiles
    /\ signup' = [pc |-> "idle"]
    /\ toast' = "Account created!"
    /\ UNCHANGED <<rides, requests, cRides, cReqs, fetching, calls, started,
                   observed, log, find, mine, events, user, panel, clock,
                   fetches, asOf, store, runs, launched, authUsers>>

NextSignUp ==
    \/ \E id \in UserName, role \in Role, phone \in Phone,
          ok, created, session \in BOOLEAN :
          SubmitSignUp(id, role, phone, ok, created, session)
    \/ \E ok \in BOOLEAN : ProfileCheck(ok)
    \/ \E ok \in BOOLEAN : RpcCreate(ok)
    \/ \E ok \in BOOLEAN : DirectInsert(ok)
    \/ \E ok \in BOOLEAN : PhoneUpdate(ok)

SpecSignUp == Init /\ [][NextSignUp]_vars

\* the program with the history of the decisions kept beside it
SpecObserved == InitObserved /\ [][Next]_vars

\* ------------------------------------------- one call at a time, for C5
\* handleRequestDecision run alone on a list that is up to date: the buttons
\* exist only for a pending request; db is [avail: ride -> seats,
\* status: request -> status]
SerialDecide(db, q, d) ==
    LET r == requests[q].ride_id
        seats == requests[q].seats_requested
    IN IF db.status[q] # "pending" THEN db
       ELSE IF d = "deny" THEN [db EXCEPT !.status[q] = "denied"]
       ELSE IF EnoughSeats(db.avail[r], seats)
            THEN [db EXCEPT !.status[q] = "approved",
                            !.avail[r] = NewSeats(db.avail[r], seats)]
            ELSE [db EXCEPT !.status[q] = "denied"]

\* every result of running the calls cs one after the other, in any order
RECURSIVE SerialOutcomes(_, _)
SerialOutcomes(db, cs) ==
    IF cs = {} THEN {db}
    ELSE UNION {SerialOutcomes(SerialDecide(db, c[1], c[2]), cs \ {c}) : c \in cs}

\* the rides as created and every request pending
FreshDb ==
    [avail |-> [r \in RideId |-> rides[r].total_seats],
     status |-> [q \in ReqId |-> "pending"]]

CurrentDb ==
    [avail |-> [r \in RideId |-> rides[r].available_seats],
     status |-> [q \in ReqId |-> requests[q].status]]

\* the decisions asked so far, and whether one of their statements failed
LoggedCalls == {c \in ReqId \X Decision : c[2] \in log[c[1]]}
NoFailure == \A q \in ReqId : "failed" \notin log[q]
Quiescent == calls = EmptyBag

\* the step ends or advances the invocation c
Steps(c) == CopiesIn(c, calls') < CopiesIn(c, calls)

\* ----------------------------------------------------------------- claims

\* C1: in every reachable state, every ride has available_seats =
\* total_seats - (sum of seats_requested over its approved requests).
C1_SeatAccounting ==
    \A r \in RideId :
        rides[r].available_seats = rides[r].total_seats - ApprovedSeats(r)

\* C2: a ride of 3 seats, two requests of 2 seats each, one approve call for
\* each and nothing else: available_seats is never negative, and once both
\* calls are over exactly one request is approved, the other denied, and
\* available_seats is 1.
C2_RaceOutcome ==
    \A r \in RideId : \A q1, q2 \in ReqId :
        ( /\ q1 # q2
          /\ rides[r].total_seats = 3
          /\ requests[q1].ride_id = r /\ requests[q2].ride_id = r
          /\ requests[q1].seats_requested = 2
          /\ requests[q2].seats_requested = 2
          /\ log[q1] = {"approve"} /\ log[q2] = {"approve"}
          /\ started = 2 )
        => /\ rides[r].available_seats >= 0
           /\ Quiescent =>
                /\ {requests[q1].status, requests[q2].status}
                       = {"approved", "denied"}
                /\ rides[r].available_seats = 1

\* C3: no step changes the status of a request that is approved or denied.
C3_StatusMonotonic ==
    [][\A q \in ReqId :
          requests[q].status # "pending"
          => requests'[q].status = requests[q].status]_vars

\* C4: when an approving call that has written status = approved returns, its
\* seat write is in the ride as well, or the request is not left approved.
C4_ApproveAtomic ==
    [][\A c \in InFlight :
          (c.pc = "rideWrite" /\ Steps(c))
          => \/ rides'[CallRide(c)].available_seats
                  = NewSeats(c.avail, CallSeats(c))
             \/ requests'[c.req].status # "approved"]_vars

\* C5: once no call is in flight (and no statement failed), the statuses and
\* seat counts are those of running the same decisions one at a time, in some
\* order, from the rides as created.
C5_Serializable ==
    (observed /\ Quiescent /\ NoFailure)
    => CurrentDb \in SerialOutcomes(FreshDb, LoggedCalls)

\* C6: a call whose write reaches a request that is no longer pending changes
\* neither a request nor a ride and ends with an error.
C6_DecidedOnce ==
    [][\A c \in InFlight :
          ( /\ c.pc \in {"reqWrite", "autoDeny", "denyWrite"}
            /\ Steps(c)
            /\ requests[c.req].status # "pending" )
          => /\ requests' = requests
             /\ rides' = rides
             /\ calls' = Remove(c)
             /\ toast' = "error"]_vars

\* C7: every ride has 0 <= available_seats <= total_seats.
C7_SeatsInRange ==
    \A r \in RideId :
        /\ 0 =< rides[r].available_seats
        /\ rides[r].available_seats =< rides[r].total_seats

\* a ride of MaxSeats seats that approvals have brought down to no seat left
C7_Witness ==
    \E r \in RideId :
        /\ rides[r].total_seats = MaxSeats
        /\ rides[r].available_seats = 0
        /\ ApprovedSeats(r) >= MaxSeats

\* C8: an approve call on a request that is pending, with seats_requested at
\* most the ride's available_seats in the database, takes the approving
\* branch; and when an approving call reports "approved", the request is
\* approved and the ride's available_seats is lower by seats_requested.
C8_ApproveEffect ==
    [][/\ \A s \in Session, q \in ReqId :
            ( /\ started' = started + 1
              /\ requests[q].ride_id \in DOMAIN cRides[s]
              /\ calls' = Add(Call(s, q, "approve"))
              /\ requests[q].status = "pending"
              /\ requests[q].seats_requested
                    =< rides[requests[q].ride_id].available_seats )
            => Call(s, q, "approve").pc = "reqWrite"
       /\ \A c \in InFlight :
            (c.pc = "rideWrite" /\ Steps(c) /\ toast' = "approved")
            => /\ requests'[c.req].status = "approved"
               /\ rides'[CallRide(c)].available_seats
                    = rides[CallRide(c)].available_seats - CallSeats(c)]_vars

\* C9: an approve call on a request that is pending, with seats_requested
\* above the ride's available_seats in the database, takes the denying
\* branch; and the denying branch changes no ride.
C9_AutoDeny ==
    [][/\ \A s \in Session, q \in ReqId :
            ( /\ started' = started + 1
              /\ requests[q].ride_id \in DOMAIN cRides[s]
              /\ calls' = Add(Call(s, q, "approve"))
              /\ requests[q].status = "pending"
              /\ requests[q].seats_requested
                    > rides[requests[q].ride_id].available_seats )
            => Call(s, q, "approve").pc = "autoDeny"
       /\ \A c \in InFlight :
            (c.pc = "autoDeny" /\ Steps(c))
            => /\ rides' = rides
               /\ requests'[c.req].status \in {"denied", requests[c.req].status}]_vars

\* C10: the write of a deny call on a pending request sets that request's
\* status to denied (or the statement fails: nothing changes and the error is
\* shown), and it changes no ride, no other field of the request and no other
\* request.
C10_DenyFrame ==
    [][\A c \in InFlight :
          ( /\ c.pc = "denyWrite"
            /\ Steps(c)
            /\ requests[c.req].status = "pending" )
          => /\ rides' = rides
             /\ \A q \in ReqId : q # c.req => requests'[q] = requests[q]
             /\ \/ requests'[c.req] = [requests[c.req] EXCEPT !.status = "denied"]
                \/ requests' = requests /\ toast' = "error"]_vars

\* a deny call has denied one request while another one is still pending and
\* the ride is as it was created
C10_Witness ==
    /\ toast = "denied"
    /\ \E q1, q2 \in ReqId :
          /\ requests[q1].status = "denied"
          /\ requests[q2].status = "pending"
          /\ requests[q1].ride_id = requests[q2].ride_id
          /\ rides[requests[q1].ride_id].available_seats
                = rides[requests[q1].ride_id].total_seats

\* C11: each ride holds at most one request per registered passenger, and a
\* booking by a registered passenger who has a request on the ride already,
\* from the form or from a stored booking, is answered with the unique
\* violation and changes no request.
C11_NoDuplicate ==
    [][/\ \A q1, q2 \in DOMAIN requests' :
            ( /\ q1 # q2
              /\ requests'[q1].ride_id = requests'[q2].ride_id
              /\ requests'[q1].passenger_id # NULL )
            => requests'[q1].passenger_id # requests'[q2].passenger_id
       /\ \A uid \in Passenger, r \in RideId, n \in 1..MaxSeats, e \in Email :
            ( /\ uid \in BookedBy(r)
              /\ \/ HandleBooking(uid, r, n, e)
                 \/ ProcessPendingBooking(uid, [ride_id |-> r,
                                                seats_requested |-> n]) )
            => requests' = requests /\ toast' = "unique"]_vars

\* a second booking of a ride by the same passenger was turned down
C11_Witness ==
    /\ toast = "unique"
    /\ \E q \in ReqId : requests[q].passenger_id \in Passenger
    /\ RequestName \ ReqId # {}

\* C12: a guest booking (an email given, seats > 0) of an existing ride
\* succeeds whatever the requests already there: it adds one pending request
\* under a new id and leaves the others as they are.
C12_GuestsNotDeduplicated ==
    [][\A r \in RideId, n \in 1..MaxSeats, e \in Email \ {""} :
          HandleBooking(NULL, r, n, e)
          => /\ toast' = "sent"
             /\ \E q \in DOMAIN requests' \ ReqId :
                   /\ DOMAIN requests' = ReqId \cup {q}
                   /\ requests'[q] = BookingRow(NULL, r, n, e)
                   /\ requests'[q].status = "pending"
             /\ \A q \in ReqId : requests'[q] = requests[q]]_vars

\* two pending guest requests for the same ride, seats and email alike
C12_Witness ==
    /\ toast = "sent"
    /\ \E q1, q2 \in ReqId :
          /\ q1 # q2
          /\ requests[q1] = requests[q2]
          /\ requests[q1].passenger_id = NULL
          /\ requests[q1].contact_email # ""
          /\ requests[q1].status = "pending"

C14_CreateRideValid ==
    [][/\ \A r \in DOMAIN rides' \ RideId :
            /\ rides'[r].total_seats > 0
            /\ rides'[r].cost_per_person >= 0
            /\ rides'[r].arrival_time >= rides'[r].departure_time
            /\ rides'[r].available_seats = rides'[r].total_seats
       /\ \A p \in Posting :
            ( /\ ProcessPendingPosting(Driver, p)
              /\ \/ p.total_seats =< 0
                 \/ p.cost_per_person < 0
                 \/ p.arrival_time < p.departure_time )
            => rides' = rides /\ toast' = "check"]_vars

\* C15: an approving call tests and subtracts from the available_seats the
\* ride has in the database when the decision is made: the value its click
\* takes is the stored one, and its seat write lowers the stored value by
\* seats_requested.
C15_FreshSeats ==
    [][/\ \A s \in Session, q \in ReqId :
            ( /\ started' = started + 1
              /\ requests[q].ride_id \in DOMAIN cRides[s]
              /\ calls' = Add(Call(s, q, "approve")) )
            => Call(s, q, "approve").avail
                  = rides[requests[q].ride_id].available_seats
       /\ \A c \in InFlight :
            (c.pc = "rideWrite" /\ Steps(c) /\ rides' # rides)
            => rides'[CallRide(c)].available_seats
                  = rides[CallRide(c)].available_seats - CallSeats(c)]_vars

\* C19: a call one of whose statements fails ends with the error shown; in
\* particular a failed auto-deny write is not reported as a denial.
C19_FailuresSurface ==
    [][\A c \in InFlight :
          ( \/ ApproveStatusWrite(c, FALSE)
            \/ ApproveSeatsWrite(c, FALSE)
            \/ AutoDenyWrite(c, FALSE)
            \/ DenyWrite(c, FALSE) )
          => toast' = "error"]_vars

\* C16: the statements of a decision sent under an identity that is not the
\* driver of the request's ride change no request and no ride.
C16_OwnerOnly ==
    [][\A uid \in Passenger \cup {NULL}, q \in ReqId, d \in Decision :
          ForeignDecision(uid, q, d)
          => requests' = requests /\ rides' = rides]_vars

\* someone else's approval of a pending request that the ride has seats for
\* came back without an error, and the request is pending still
C16_Witness ==
    /\ toast = "no row"
    /\ \E q \in ReqId :
          /\ requests[q].status = "pending"
          /\ requests[q].passenger_id \in Passenger
          /\ rides[requests[q].ride_id].driver_id = Driver
          /\ rides[requests[q].ride_id].available_seats
                >= requests[q].seats_requested

\* C18: a decision on a request id or a ride id that is not found ends with
\* the error shown and changes no request and no ride.
C18_NotFoundReported ==
    [][\A s \in Session, q \in RequestName, r \in RideName, d \in Decision :
          DecideUnknown(s, q, r, d)
          => /\ toast' = "error"
             /\ requests' = requests /\ rides' = rides]_vars

\* C17: a fetch lists exactly the rides with available_seats > 0 that depart
\* after the instant of the query, by ascending departure_time; picking an
\* origin that a listed ride has leaves on screen exactly the listed rides
\* of that origin (and of the destination picked, if one is), and Clear
\* leaves all of them.
C17_ListOpenRides ==
    [][/\ \A now \in Instant :
            FetchOpenRides(now)
            => /\ {find'.list[i] : i \in DOMAIN find'.list}
                    = {r \in RideId : /\ rides[r].available_seats > 0
                                      /\ rides[r].departure_time > now}
               /\ \A i, j \in DOMAIN find'.list :
                     i < j => rides[find'.list[i]].departure_time
                                =< rides[find'.list[j]].departure_time
       /\ \A o \in Place :
            ( /\ SetOriginFilter(o)
              /\ \E i \in DOMAIN find.list : rides[find.list[i]].origin = o )
            => Shown(find') =
                 SelectSeq(find.list,
                           LAMBDA r : /\ rides[r].origin = o
                                      /\ \/ find.destinationFilter = ALL
                                         \/ rides[r].destination
                                               = find.destinationFilter)
       /\ ClearFilters => Shown(find') = find.list]_vars

\* C20: every step that changes a ride or a request leaves a change event for
\* each mounted view that shows the row (FindRide for a ride, the dashboard
\* for a ride of the driver and for a request of such a ride, MyRequests of
\* the passenger of a request), and a view with an event waiting fetches
\* again, unless it is unmounted.
C20_EventsLeft ==
    /\ \A r \in DOMAIN rides' :
          (r \notin RideId \/ rides'[r] # rides[r])
          => /\ events'["find"]
             /\ Mounted("dash") => events'["dash"]
    /\ \A q \in DOMAIN requests' :
          (q \notin ReqId \/ requests'[q] # requests[q])
          => /\ Mounted("dash") => events'["dash"]
             /\ requests'[q].passenger_id \in Passenger
                  => events'[requests'[q].passenger_id]

C20_ChangeEvents ==
    /\ [][C20_EventsLeft]_vars
    /\ \A v \in View : events[v] ~> (~events[v] \/ ~Mounted(v))

\* an approval went through and every view has fetched since: FindRide lists
\* the ride with the seats left, the passenger and the driver see "approved",
\* and no event is waiting
C20_Witness ==
    /\ DOMAIN events # {} /\ \A v \in View : ~events[v]
    /\ \E q \in ReqId, s \in Session :
          /\ requests[q].status = "approved"
          /\ requests[q].passenger_id \in Passenger
          /\ q \in DOMAIN mine[requests[q].passenger_id]
          /\ mine[requests[q].passenger_id][q] = "approved"
          /\ q \in DOMAIN cReqs[s] /\ cReqs[s][q] = "approved"
          /\ rides[requests[q].ride_id].available_seats
                < rides[requests[q].ride_id].total_seats
          /\ find.list = <<requests[q].ride_id>>

C22_AliasesInSync ==
    \A r \in RideId : rides[r].seats_available = {rides[r].available_seats}

\* C23: while no user is signed in, a panel that is mounted comes to have
\* loading = false (or is unmounted, or a user signs in).
C23_GuestLoaderEnds ==
    \A p \in Panel :
        (user = NULL /\ panel[p].pc # "unmounted")
        ~> (user # NULL \/ panel[p].pc = "unmounted" \/ ~panel[p].loading)

\* C24: for every ride, the seats of its approved requests add up to at most
\* total_seats.
C24_NoOverbooking ==
    \A r \in RideId : ApprovedSeats(r) =< rides[r].total_seats

\* C25: no step raises the available_seats of a ride.
C25_SeatsNeverIncrease ==
    [][\A r \in RideId :
          rides'[r].available_seats =< rides[r].available_seats]_vars

\* C26: with one decision at a time, each on lists fetched after the one
\* before, and no statement failing: whenever a call has returned every ride
\* has available_seats = total_seats - (seats of its approved requests), and
\* no step changes the status of a request that is approved or denied.
C26_Accounted ==
    \A r \in RideId :
        rides[r].available_seats = rides[r].total_seats - ApprovedSeats(r)
C27_GuestRideUndecided ==
    \A r \in RideId :
        rides[r].driver_id = NULL
        => /\ rides[r].available_seats = rides[r].total_seats
           /\ \A q \in ReqId :
                 requests[q].ride_id = r => requests[q].status = "pending"
           /\ \A s \in Session : r \notin DOMAIN cRides[s]

\* a decision on a request of a guest's ride was sent and came back without an
\* error, after the dashboard had fetched its lists
C27_Witness ==
    /\ toast = "no row"
    /\ \A s \in Session : fetching[s] = "idle"
    /\ \E q \in ReqId :
          /\ rides[requests[q].ride_id].driver_id = NULL
          /\ requests[q].status = "pending"
          /\ rides[requests[q].ride_id].available_seats
                >= requests[q].seats_requested

\* C28: when no change event is waiting and no fetchData is awaiting an
\* answer, the lists of the dashboard hold the rows its two queries select
\* (as of the instant of the last fetchData).
C28_Converged ==
    \A s \in Session :
        (DOMAIN events # {} /\ ~events["dash"] /\ fetches = {} /\ asOf = clock)
        => /\ cRides[s] = RidesData(clock)
           /\ cReqs[s] = RequestsData(ListedRides(clock))

\* C29: a stored posting becomes at most one ride and a stored booking at
\* most one request, however the runs of processPending overlap; and an item
\* leaves localStorage in the step that inserts its row, and in no other.
C29_RowsOf(u) ==
    [rides |-> {r \in RideId : rides[r].driver_id = u},
     requests |-> {q \in ReqId : requests[q].passenger_id = u}]
C29_AppliedOnce ==
    [][/\ \A u \in Passenger :
            /\ Cardinality(C29_RowsOf(u)'.rides) =< 1
            /\ Cardinality(C29_RowsOf(u)'.requests) =< 1
       /\ store'.posting # store.posting <=> rides' # rides
       /\ store'.booking # store.booking <=> requests' # requests]_vars

\* C30: when handleSignUp ends with "Account created!", the new user has a
\* profile row and its role is the role chosen in the form.
C30_ProfileHasRole ==
    [][(signup.pc # "idle" /\ signup'.pc = "idle"
        /\ toast' = "Account created!")
       => /\ signup.id \in DOMAIN profiles'
          /\ profiles'[signup.id].role = signup.role]_vars

====
